---- MODULE Spec2Model ----
(***************************************************************************)
(* A model of upzload's server.js: the identity table, the sessions, the   *)
(* uploads directory tree and the request handlers of the express app.     *)
(*                                                                         *)
(* A string that the code uses as a path (a username, a route parameter)   *)
(* is a sequence of its "/"-separated segments: "alice" is <<"alice">>,    *)
(* "alice/f1" is <<"alice", "f1">>, "." is <<".">> and the empty string is *)
(* <<>>.  Two such strings are equal exactly when the sequences are.       *)
(***************************************************************************)
EXTENDS Integers, Sequences, FiniteSets, TLC

VARIABLES
  users,          \* the in-memory identity table: own keys -> { password_hash }
  usersFile,      \* the content of users.json
  disk,           \* the file system below the working directory: path -> node
  sessions,       \* per client (cookie jar): the set holding req.session.userId
  uploading,      \* the uploads whose form.parse is in progress
  resp,           \* the last response the server sent
  registrations,  \* per username: signups with both fields answered, and accepted
  nSignups,       \* signup requests handled so far
  nUploads        \* upload requests started so far

vars == <<users, usersFile, disk, sessions, uploading, resp, registrations, nSignups, nUploads>>

----------------------------------------------------------------------------
(* Bounds of the model: the signup and the upload requests of a run *)

AccessSignups == 2
AccessUploads == 1
IdentitySignups == 2
IdentityUploads == 1
UploadSignups == 1
UploadUploads == 2
BatchSignups == 1
BatchUploads == 1
PathSignups == 2
PathUploads == 1

(* The inputs the requests are drawn from *)

Clients == {"c1", "c2"}

EmptyString == <<>>

\* "../users.json" and "../users.json/x" are usernames like any other string
Usernames ==
  {EmptyString, <<"alice">>, <<".">>, <<"constructor">>,
   <<"..", "users.json">>, <<"..", "users.json", "x">>}

Passwords == {"", "pw1", "pw2"}

FolderIds == {"f1", "f2"}

\* What formidable hands to the callback as `files`: one entry per form field,
\* in Object.keys order; an entry is one file object or an array of them.
OneFile(name) == [array |-> FALSE, files |-> <<name>>]
FileArray(names) == [array |-> TRUE, files |-> names]

Batches ==
  { <<>>,
    <<OneFile("a.txt")>>,
    <<FileArray(<<"a.txt", "b.txt">>)>>,
    <<FileArray(<<"a.txt">>), FileArray(<<"b.txt">>)>> }

FileNames == {"a.txt", "b.txt", "index.html"}

\* :folder and :filename as express decodes them: "%2F" in a parameter of the
\* request is a "/" of its value, so "..%2F..%2F..%2Fusers.json" is the
\* filename "../../../users.json"
EncodedParams == { << <<"f1">>, <<"..", "..", "..", "users.json">> >> }

----------------------------------------------------------------------------
(* server.js:11-12 *)

USERS_FILE == <<"users.json">>
UPLOAD_DIR == <<"uploads">>

(* path.normalize, as path.join applies it: "." segments vanish and ".."   *)
(* removes the segment before it.                                          *)
RECURSIVE Normalize(_, _)
Normalize(acc, rest) ==
  IF rest = <<>> THEN acc
  ELSE LET s == Head(rest) IN
       IF s = "." THEN Normalize(acc, Tail(rest))
       ELSE IF s = ".."
            THEN IF acc # <<>> /\ acc[Len(acc)] # ".."
                 THEN Normalize(SubSeq(acc, 1, Len(acc) - 1), Tail(rest))
                 ELSE Normalize(Append(acc, ".."), Tail(rest))
            ELSE Normalize(Append(acc, s), Tail(rest))

PathJoin(a, b) == Normalize(<<>>, a \o b)

IsPrefix(p, q) == Len(p) <= Len(q) /\ SubSeq(q, 1, Len(p)) = p

(* Nodes of the file system *)
DirNode == [type |-> "dir", by |-> <<>>, name |-> "", links |-> <<>>]
\* the bytes of an uploaded file: who sent them, under which client-side name
FileNode(by, name) == [type |-> "file", by |-> by, name |-> name, links |-> <<>>]
\* the generated download page with its download links
IndexNode(by, links) == [type |-> "index", by |-> by, name |-> "index.html", links |-> links]
\* users.json and the other files of the working directory
OtherNode == [type |-> "other", by |-> <<>>, name |-> "", links |-> <<>>]

existsSync(d, p) == p \in DOMAIN d
IsDir(d, p) == p \in DOMAIN d /\ d[p].type = "dir"
IsFile(d, p) == p \in DOMAIN d /\ d[p].type # "dir"

Prefixes(p) == {SubSeq(p, 1, n) : n \in 1..Len(p)}

\* fs.mkdirSync(p, { recursive: true }) throws when a segment of p is a file
MkdirFails(d, p) == \E q \in Prefixes(p) : IsFile(d, q)

\* fs.mkdirSync(p, { recursive: true }): p and its missing ancestors
mkdirSync(d, p) ==
  [q \in DOMAIN d \cup Prefixes(p) |-> IF q \in DOMAIN d THEN d[q] ELSE DirNode]

\* fs.writeFileSync / the file the upload stream creates
WriteFile(d, p, node) == [q \in DOMAIN d \cup {p} |-> IF q = p THEN node ELSE d[q]]

\* fs.renameSync(from, to): an existing file at `to` is replaced
renameSync(d, from, to) ==
  [q \in (DOMAIN d \ {from}) \cup {to} |-> IF q = to THEN d[from] ELSE d[q]]

Unlink(d, ps) == [q \in DOMAIN d \ ps |-> d[q]]

----------------------------------------------------------------------------
(* The identity table is a plain object: a key that is not its own is      *)
(* looked up on Object.prototype.                                          *)

ObjectPrototypeKeys == {<<"constructor">>, <<"toString">>, <<"__proto__">>}

Undefined == [tag |-> "undefined", salt |-> "", pw |-> ""]
Inherited == [tag |-> "inherited", salt |-> "", pw |-> ""]

\* bcrypt.hashSync(password, 10): a fresh salt and the salted digest
hashSync(password, salt) == [tag |-> "hash", salt |-> salt, pw |-> password]

\* bcrypt.compareSync(password, hash)
compareSync(password, hash) == hash.tag = "hash" /\ hash.pw = password

\* users[username]
UsersGet(u) ==
  IF u \in DOMAIN users THEN users[u]
  ELSE IF u \in ObjectPrototypeKeys THEN Inherited
  ELSE Undefined

Truthy(v) == v.tag # "undefined"

----------------------------------------------------------------------------------------------------------------------------------------
(* Responses.  `as` is the session identity the request carried, `user` the *)
(* username or :user it named, `password` the password it gave, `path` the  *)
(* path it asked for, `served` the <<path, node>> whose content is streamed *)
(* back, `tree` the listing.                                                *)

Response(c, route, status, body, as, user, path, served, tree) ==
  [client |-> c, route |-> route, status |-> status, body |-> body, as |-> as,
   user |-> user, password |-> "", path |-> path, served |-> served, tree |-> tree]

\* the answer to a signup or a login
IdentityResponse(c, route, status, body, u, p) ==
  [Response(c, route, status, body, sessions[c], u, <<>>, {}, {}) EXCEPT !.password = p]

NoResponse == Response("", "", 0, "", {}, <<>>, <<>>, {}, {})

Init ==
  /\ users = [u \in {} |-> Undefined]
  /\ usersFile = users
  /\ disk = [p \in {UPLOAD_DIR, USERS_FILE} |-> IF p = UPLOAD_DIR THEN DirNode ELSE OtherNode]
  /\ sessions = [c \in Clients |-> {}]
  /\ uploading = {}
  /\ resp = NoResponse
  /\ registrations = [u \in Usernames |-> [answered |-> 0, accepted |-> 0, refused |-> 0]]
  /\ nSignups = 0
  /\ nUploads = 0

----------------------------------------------------------------------------
(* POST /signup.  The handler has no asynchronous step: it runs from its   *)
(* first line to its response before any other request is looked at.      *)

SignupMissingFieldNoPassword(u, p) == u = EmptyString

\* if (!username || !password)
SignupMissingField(u, p) == u = EmptyString \/ p = ""

SignupExistsUnchecked(u) == FALSE

\* if (users[username])
SignupExists(u) == Truthy(UsersGet(u))

SignupStoreNothing(table, u, hash) == table

\* users[username] = { password_hash: hash }
SignupStore(table, u, hash) ==
  [v \in DOMAIN table \cup {u} |-> IF v = u THEN hash ELSE table[v]]

Counted(u, outcome) ==
  [registrations EXCEPT ![u] =
     [answered |-> @.answered + 1,
      accepted |-> @.accepted + (IF outcome = "accepted" THEN 1 ELSE 0),
      refused |-> @.refused + (IF outcome = "refused" THEN 1 ELSE 0)]]

Signup(c, u, p, salt) ==
  LET userDir == PathJoin(UPLOAD_DIR, u) IN
  /\ nSignups' = nSignups + 1
  /\ IF SignupMissingField(u, p)
     THEN /\ resp' = IdentityResponse(c, "signup", 200, "username and password required", u, p)
          /\ UNCHANGED <<users, usersFile, disk, sessions, registrations>>
     ELSE IF SignupExists(u)
     THEN /\ resp' = IdentityResponse(c, "signup", 200, "username already exists", u, p)
          /\ registrations' = Counted(u, "refused")
          /\ UNCHANGED <<users, usersFile, disk, sessions>>
     ELSE /\ users' = SignupStore(users, u, hashSync(p, salt))
          /\ usersFile' = users'
          /\ IF ~existsSync(disk, userDir) /\ MkdirFails(disk, userDir)
             THEN \* mkdirSync throws after the table was written
                  /\ resp' = IdentityResponse(c, "signup", 500, "exception", u, p)
                  /\ registrations' = Counted(u, "threw")
                  /\ UNCHANGED <<disk, sessions>>
             ELSE /\ disk' = IF existsSync(disk, userDir) THEN disk ELSE mkdirSync(disk, userDir)
                  /\ sessions' = [sessions EXCEPT ![c] = {u}]
                  /\ resp' = IdentityResponse(c, "signup", 302, "/files.html", u, p)
                  /\ registrations' = Counted(u, "accepted")
  /\ UNCHANGED <<uploading, nUploads>>

(* POST /login *)
Login(c, u, p) ==
  LET user == UsersGet(u) IN
  /\ IF ~Truthy(user)
     THEN /\ resp' = IdentityResponse(c, "login", 200, "user not found", u, p)
          /\ UNCHANGED sessions
     ELSE IF user.tag # "hash"
     THEN \* user.password_hash is undefined: bcrypt.compareSync throws
          /\ resp' = IdentityResponse(c, "login", 500, "exception", u, p)
          /\ UNCHANGED sessions
     ELSE IF compareSync(p, user)
     THEN /\ sessions' = [sessions EXCEPT ![c] = {u}]
          /\ resp' = IdentityResponse(c, "login", 302, "/files.html", u, p)
     ELSE /\ resp' = IdentityResponse(c, "login", 200, "incorrect password", u, p)
          /\ UNCHANGED sessions
  /\ UNCHANGED <<users, usersFile, disk, uploading, registrations, nSignups, nUploads>>

(* GET /logout *)
Logout(c) ==
  /\ sessions' = [sessions EXCEPT ![c] = {}]
  /\ resp' = Response(c, "logout", 302, "/", sessions[c], <<>>, <<>>, {}, {})
  /\ UNCHANGED <<users, usersFile, disk, uploading, registrations, nSignups, nUploads>>

\* requireLogin: if (req.session.userId) return next()
LoggedIn(c) == \E u \in sessions[c] : u # EmptyString

SessionUser(c) == CHOOSE u \in sessions[c] : TRUE

----------------------------------------------------------------------------
(* GET /uploads/...: express.static(UPLOAD_DIR), mounted before the session *)
(* middleware and before every route.  A file is streamed as it is; a      *)
(* directory is answered with the index.html it holds.                     *)

StaticTarget(d, p) ==
  IF IsFile(d, p) THEN {p}
  ELSE IF IsDir(d, p) /\ IsFile(d, Append(p, "index.html"))
       THEN {Append(p, "index.html")}
       ELSE {}

Static(c, p) ==
  /\ IsPrefix(UPLOAD_DIR, p)
  /\ resp' = IF StaticTarget(disk, p) = {}
             THEN Response(c, "static", 404, "not found", sessions[c], <<>>, p, {}, {})
             ELSE Response(c, "static", 200, "file", sessions[c], <<>>, p,
                           {<<q, disk[q]>> : q \in StaticTarget(disk, p)}, {})
  /\ UNCHANGED <<users, usersFile, disk, sessions, uploading, registrations, nSignups, nUploads>>

----------------------------------------------------------------------------
(* GET /api/files *)

Children(d, dir) == {q \in DOMAIN d : Len(q) = Len(dir) + 1 /\ IsPrefix(dir, q)}

Basename(p) == IF p = <<>> THEN "." ELSE p[Len(p)]

RECURSIVE listFilesRecursive(_, _)
listFilesRecursive(d, dir) ==
  IF ~IsDir(d, dir)
  THEN {[name |-> Basename(dir), type |-> "file", path |-> <<>>, children |-> {}]}
  ELSE {IF IsDir(d, q)
        THEN [name |-> Basename(q), type |-> "directory", path |-> <<>>,
              children |-> listFilesRecursive(d, q)]
        ELSE [name |-> Basename(q), type |-> "file", path |-> q, children |-> {}]
        : q \in Children(d, dir)}

\* path.join(UPLOAD_DIR, req.session.userId)
UserDir(u) == PathJoin(UPLOAD_DIR, u)

\* if (!fs.existsSync(userDir)) fs.mkdirSync(userDir, { recursive: true })
EnsureUserDir(d, userDir) == IF existsSync(d, userDir) THEN d ELSE mkdirSync(d, userDir)

EnsureThrows(d, userDir) == ~existsSync(d, userDir) /\ MkdirFails(d, userDir)

List(c) ==
  /\ IF ~LoggedIn(c)
     THEN /\ resp' = Response(c, "list", 302, "/", sessions[c], <<>>, <<>>, {}, {})
          /\ UNCHANGED disk
     ELSE LET userDir == UserDir(SessionUser(c)) IN
          IF EnsureThrows(disk, userDir)
          THEN /\ resp' = Response(c, "list", 500, "exception", sessions[c], <<>>, <<>>, {}, {})
               /\ UNCHANGED disk
          ELSE /\ disk' = EnsureUserDir(disk, userDir)
               /\ resp' = Response(c, "list", 200, "json", sessions[c], SessionUser(c), userDir,
                                   {}, listFilesRecursive(disk', userDir))
  /\ UNCHANGED <<users, usersFile, sessions, uploading, registrations, nSignups, nUploads>>

----------------------------------------------------------------------------
(* GET /download/:user/:folder/:filename *)

NotOwnerUnchecked(userId, user) == FALSE

\* if (req.session.userId !== user)
NotOwner(userId, user) == userId # user

Download(c, user, folder, filename) ==
  LET filePath == PathJoin(UPLOAD_DIR, user \o folder \o filename) IN
  /\ resp' =
       IF ~LoggedIn(c)
       THEN Response(c, "download", 302, "/", sessions[c], user, filePath, {}, {})
       ELSE IF NotOwner(SessionUser(c), user)
       THEN Response(c, "download", 403, "forbidden", sessions[c], user, filePath, {}, {})
       ELSE IF ~existsSync(disk, filePath)
       THEN Response(c, "download", 404, "file not found", sessions[c], user, filePath, {}, {})
       ELSE IF IsDir(disk, filePath)
       THEN \* res.download of a directory: send reports EISDIR, res.sendFile
            \* passes the request on and express answers 404; nothing is streamed
            Response(c, "download", 404, "Cannot GET", sessions[c], user, filePath, {}, {})
       ELSE Response(c, "download", 200, "file", sessions[c], user, filePath,
                     {<<filePath, disk[filePath]>>}, {})
  /\ UNCHANGED <<users, usersFile, disk, sessions, uploading, registrations, nSignups, nUploads>>

----------------------------------------------------------------------------
(* POST /api/upload *)

RECURSIVE FlatFiles(_)
FlatFiles(batch) ==
  IF batch = <<>> THEN <<>> ELSE Head(batch).files \o FlatFiles(Tail(batch))

\* the position of files[key][j] among all the files of the request
Position(batch, i, j) == Len(FlatFiles(SubSeq(batch, 1, i - 1))) + j

\* formidable names the file it writes into uploadDir itself; the names of
\* different requests and of different files never coincide
TmpNames == << <<"tmp11", "tmp12">>, <<"tmp21", "tmp22">>, <<"tmp31", "tmp32">> >>
TmpPath(up, k) == Append(up.path, TmpNames[up.serial][k])

\* crypto.randomBytes(3).toString('hex'): any id may be drawn;
\* fs.mkdirSync(uploadPath, { recursive: true }) accepts an existing directory
AllocateFolder(d, userDir, id) == mkdirSync(d, PathJoin(userDir, <<id>>))

\* (a client has one upload request under way at a time)
UploadStart(c, id, batch) ==
  /\ LoggedIn(c)
  /\ \A up \in uploading : up.client # c
  /\ nUploads' = nUploads + 1
  /\ LET userDir == UserDir(SessionUser(c))
         uploadPath == PathJoin(userDir, <<id>>)
     IN
     IF EnsureThrows(disk, userDir)
     THEN /\ resp' = Response(c, "upload", 500, "exception", sessions[c], <<>>, <<>>, {}, {})
          /\ UNCHANGED <<disk, uploading>>
     ELSE IF MkdirFails(EnsureUserDir(disk, userDir), uploadPath)
     THEN /\ resp' = Response(c, "upload", 500, "exception", sessions[c], <<>>, <<>>, {}, {})
          /\ disk' = EnsureUserDir(disk, userDir)
          /\ UNCHANGED uploading
     ELSE /\ disk' = AllocateFolder(EnsureUserDir(disk, userDir), userDir, id)
          /\ uploading' = uploading \cup
                {[client |-> c, user |-> SessionUser(c), id |-> id, path |-> uploadPath,
                  batch |-> batch, written |-> 0, serial |-> nUploads + 1,
                  collided |-> existsSync(disk, uploadPath)]}
          /\ UNCHANGED resp
  /\ UNCHANGED <<users, usersFile, sessions, registrations, nSignups>>

UploadUnguarded(c) ==
  /\ ~LoggedIn(c)
  /\ resp' = Response(c, "upload", 500, "exception", sessions[c], <<>>, <<>>, {}, {})
  /\ UNCHANGED <<users, usersFile, disk, sessions, uploading, registrations, nSignups, nUploads>>

\* requireLogin in front of the upload handler: res.redirect('/')
UploadRedirect(c) ==
  /\ ~LoggedIn(c)
  /\ resp' = Response(c, "upload", 302, "/", sessions[c], <<>>, <<>>, {}, {})
  /\ UNCHANGED <<users, usersFile, disk, sessions, uploading, registrations, nSignups, nUploads>>

\* form.parse streams the next file of the request into uploadDir
UploadWrite(up) ==
  /\ up.written < Len(FlatFiles(up.batch))
  /\ disk' = WriteFile(disk, TmpPath(up, up.written + 1),
                       FileNode(up.user, FlatFiles(up.batch)[up.written + 1]))
  /\ uploading' = (uploading \ {up}) \cup {[up EXCEPT !.written = up.written + 1]}
  /\ UNCHANGED <<users, usersFile, sessions, resp, registrations, nSignups, nUploads>>

UploadResponse(up, status, body) ==
  Response(up.client, "upload", status, body, {up.user}, up.user, up.path, {}, {})

\* form.parse calls back with err (a malformed body, the client went away);
\* the files it had opened stay or are unlinked
UploadFail(up, unlinked) ==
  /\ disk' = IF unlinked
             THEN Unlink(disk, {TmpPath(up, k) : k \in 1..up.written} \cap DOMAIN disk)
             ELSE disk
  /\ uploading' = uploading \ {up}
  /\ resp' = UploadResponse(up, 500, "upload failed")
  /\ UNCHANGED <<users, usersFile, sessions, registrations, nSignups, nUploads>>

\* originalName / filepath of files[key]: of the first file when it is an array
RECURSIVE RenameFiles(_, _, _)
RenameFiles(d, up, i) ==
  IF i > Len(up.batch) THEN [disk |-> d, threw |-> FALSE]
  ELSE LET from == TmpPath(up, Position(up.batch, i, 1))
           to == PathJoin(up.path, <<up.batch[i].files[1]>>)
       IN IF ~existsSync(d, from) \/ IsDir(d, to)
          THEN [disk |-> d, threw |-> TRUE]
          ELSE RenameFiles(renameSync(d, from, to), up, i + 1)

\* fileObj = Array.isArray(files[key]) ? files[key][i] : files[key], with i
\* the index of key among the keys (from 0)
ButtonFile(batch, i) ==
  IF batch[i].array
  THEN IF i <= Len(batch[i].files) THEN <<batch[i].files[i]>> ELSE <<>>
  ELSE <<batch[i].files[1]>>

\* reading originalFilename of undefined throws
ButtonsThrow(batch) == \E i \in 1..Len(batch) : ButtonFile(batch, i) = <<>>

downloadButtons(up) ==
  [i \in 1..Len(up.batch) |-> <<up.user, <<up.id>>, ButtonFile(up.batch, i)>>]

NoFilesUnchecked(batch) == FALSE

\* if (fileKeys.length === 0)
NoFiles(batch) == Len(batch) = 0

\* the callback of form.parse, err being null
UploadParsed(up) ==
  LET renamed == RenameFiles(disk, up, 1)
      indexHtmlPath == PathJoin(up.path, <<"index.html">>)
  IN
  /\ up.written = Len(FlatFiles(up.batch))
  /\ uploading' = uploading \ {up}
  /\ IF NoFiles(up.batch)
     THEN /\ resp' = UploadResponse(up, 400, "no files uploaded")
          /\ UNCHANGED disk
     ELSE IF renamed.threw \/ ButtonsThrow(up.batch) \/ IsDir(renamed.disk, indexHtmlPath)
     THEN /\ resp' = UploadResponse(up, 500, "exception")
          /\ disk' = renamed.disk
     ELSE /\ resp' = UploadResponse(up, 200, "upload successful")
          /\ disk' = WriteFile(renamed.disk, indexHtmlPath,
                               IndexNode(up.user, downloadButtons(up)))
  /\ UNCHANGED <<users, usersFile, sessions, registrations, nSignups, nUploads>>

----------------------------------------------------------------------------
(* The requests of the clients.  `in` holds the sets the inputs are drawn  *)
(* from and the number of signup and upload requests of a run.             *)

\* the values of :folder and :filename of the download requests
DownloadParams(in) ==
  {<< <<id>>, <<n>> >> : id \in in.folders, n \in in.files} \cup in.encoded

Requests(in) ==
  \/ /\ nSignups < in.signups
     /\ \E c \in Clients, u \in in.names, p \in in.passwords, salt \in in.salts :
          Signup(c, u, p, salt)
  \/ \E c \in Clients, u \in in.names, p \in in.passwords : Login(c, u, p)
  \/ \E c \in Clients : Logout(c)
  \/ \E c \in Clients, p \in DOMAIN disk :
        Basename(p) \in in.folders \cup in.files /\ Static(c, p)
  \/ \E c \in Clients : List(c)
  \/ \E c \in Clients, user \in in.names \ {EmptyString}, param \in DownloadParams(in) :
        Download(c, user, param[1], param[2])
  \/ /\ nUploads < in.uploads
     /\ \E c \in Clients, id \in in.ids, batch \in in.batches : UploadStart(c, id, batch)
  \/ \E c \in Clients : UploadRedirect(c)
  \/ \E up \in uploading : UploadWrite(up)
  \/ \E up \in uploading, unlinked \in BOOLEAN : UploadFail(up, unlinked)
  \/ \E up \in uploading : UploadParsed(up)

\* Who may read what: two identities, one of them named ".", one upload
Next ==
  Requests([names |-> {<<"alice">>, <<".">>}, passwords |-> {"pw1"}, salts |-> {"s1"},
            ids |-> {"f1"}, batches |-> {<<OneFile("a.txt")>>},
            folders |-> {"f1"}, files |-> {"a.txt", "tmp11"}, encoded |-> {},
            signups |-> AccessSignups, uploads |-> AccessUploads])

Spec == Init /\ [][Next]_vars

\* The identity table: every kind of username, every password
NextIdentity ==
  Requests([names |-> {EmptyString, <<"alice">>, <<"constructor">>}, passwords |-> Passwords, salts |-> {"s1"},
            ids |-> {"f1"}, batches |-> {<<OneFile("a.txt")>>},
            folders |-> {"f1"}, files |-> {"a.txt"}, encoded |-> {},
            signups |-> IdentitySignups, uploads |-> IdentityUploads])

SpecIdentity == Init /\ [][NextIdentity]_vars

\* The share folders of one identity: every id and batch, uploads side by side
NextUpload ==
  Requests([names |-> {<<"alice">>}, passwords |-> {"pw1"}, salts |-> {"s1"},
            ids |-> FolderIds, batches |-> Batches,
            folders |-> {"f1"}, files |-> {"a.txt"}, encoded |-> {},
            signups |-> UploadSignups, uploads |-> UploadUploads])

SpecUpload == Init /\ [][NextUpload]_vars

\* The batches of an upload: every shape of `files`, one folder id
NextBatch ==
  Requests([names |-> {<<"alice">>}, passwords |-> {"pw1"}, salts |-> {"s1"},
            ids |-> {"f1"}, batches |-> Batches,
            folders |-> {"f1"}, files |-> {"a.txt", "b.txt", "index.html"}, encoded |-> {},
            signups |-> BatchSignups, uploads |-> BatchUploads])

SpecBatch == Init /\ [][NextBatch]_vars

\* Usernames and request parameters that name a path outside uploads/<name>
NextPath ==
  Requests([names |-> {<<"alice">>, <<"..", "users.json">>, <<"..", "users.json", "x">>},
            passwords |-> {"pw1"}, salts |-> {"s1"},
            ids |-> {"f1"}, batches |-> {<<OneFile("a.txt")>>},
            folders |-> {"f1"}, files |-> {"a.txt"}, encoded |-> EncodedParams,
            signups |-> PathSignups, uploads |-> PathUploads])

SpecPath == Init /\ [][NextPath]_vars

----------------------------------------------------------------------------
(* Download authorisation and the isolation of the namespaces *)

\* C1: a download request of an authenticated caller for another identity's
\* :user is answered 403 forbidden and streams no file, whether or not the
\* requested path exists.
C1_OthersForbidden ==
  (resp.route = "download" /\ resp.as # {} /\ resp.as # {resp.user})
    => (resp.status = 403 /\ resp.served = {})

\* a caller was refused another identity's file that is on the disk
C1_Witness ==
  /\ resp.route = "download" /\ resp.status = 403
  /\ resp.as # {} /\ resp.as # {resp.user}
  /\ IsFile(disk, resp.path) /\ disk[resp.path].by = resp.user

RECURSIVE TreeFiles(_)
TreeFiles(tree) ==
  UNION {IF n.type = "directory" THEN TreeFiles(n.children) ELSE {n.path} : n \in tree}

\* C2: the listing an identity receives holds no file that another identity
\* uploaded (the namespaces of distinct usernames are disjoint subtrees).
C2_ListingHoldsOwnFilesOnly ==
  (resp.route = "list" /\ resp.status = 200)
    => \A p \in TreeFiles(resp.tree) :
         (p \in DOMAIN disk /\ disk[p].type \in {"file", "index"}) => disk[p].by = resp.user

\* C3: a response streams a file of a registered identity's namespace only
\* when the request carried that identity's session.
C3_OwnerSessionOnly ==
  \A f \in resp.served : \A a \in DOMAIN users :
    IsPrefix(UserDir(a), f[1]) => resp.as = {a}

----------------------------------------------------------------------------
(* The identity table *)

\* a step that answers a signup request
SignupStep == nSignups' = nSignups + 1

\* a step that answers a login request
LoginStep == resp' # resp /\ resp'.route = "login"

VerifiersKept == \A u \in DOMAIN users : u \in DOMAIN users' /\ users'[u] = users[u]

\* C4 as stated: once u is registered, every later signup for u is answered
\* "username already exists" and no stored verifier ever changes.
C4_LaterSignupAlreadyExists ==
  [][/\ VerifiersKept
     /\ (SignupStep /\ resp'.user \in DOMAIN users)
          => resp'.body = "username already exists"]_vars

\* C4 as amended: once u is registered, every later signup for u fails, with
\* "username already exists" when its password is not empty and with
\* "username and password required" when it is, and no stored verifier ever
\* changes.
C4_LaterSignupRefused ==
  [][/\ VerifiersKept
     /\ (SignupStep /\ resp'.user \in DOMAIN users)
          => /\ users' = users /\ usersFile' = usersFile
             /\ resp'.body = IF resp'.password = ""
                             THEN "username and password required"
                             ELSE "username already exists"]_vars

\* a second signup for a registered username, with another password, was refused
C4_Witness ==
  /\ resp.route = "signup" /\ resp.body = "username already exists"
  /\ resp.user \in DOMAIN users
  /\ users[resp.user].pw # resp.password
  /\ registrations[resp.user].accepted = 1 /\ registrations[resp.user].refused >= 1

\* C5: of two signup requests for one username (both fields given) exactly
\* one is accepted and the other is answered "username already exists".
C5_ExactlyOneSignupWins ==
  \A u \in Usernames :
    registrations[u].answered >= 2
      => /\ registrations[u].accepted = 1
         /\ registrations[u].refused = registrations[u].answered - 1

\* C6: a signup with an empty username or an empty password is answered
\* "username and password required" and changes neither the identity table,
\* nor users.json, nor the disk, nor any session.
C6_EmptyFieldRejected ==
  [][(SignupStep /\ (resp'.user = EmptyString \/ resp'.password = ""))
        => /\ resp'.body = "username and password required"
           /\ UNCHANGED <<users, usersFile, disk, sessions>>]_vars

\* a signup naming a user and no password was rejected
C6_Witness ==
  /\ resp.route = "signup" /\ resp.body = "username and password required"
  /\ resp.user # EmptyString /\ resp.password = ""
  /\ resp.user \notin DOMAIN users

\* C7: a login with the registered secret authenticates the caller; with
\* another secret it is answered "incorrect password" and leaves the session
\* alone; for a username that was never registered it is answered "user not
\* found".
C7_LoginOutcomes ==
  [][LoginStep
       => IF resp'.user \in DOMAIN users
          THEN IF users[resp'.user].pw = resp'.password
               THEN /\ resp'.status = 302
                    /\ sessions' = [sessions EXCEPT ![resp'.client] = {resp'.user}]
               ELSE resp'.body = "incorrect password" /\ sessions' = sessions
          ELSE resp'.body = "user not found" /\ sessions' = sessions]_vars

----------------------------------------------------------------------------
(* Share folders *)

\* C8: no upload allocates a folder id that already exists under its owner's
\* namespace, so the ids of one namespace are pairwise distinct.
C8_FolderIdsDistinct == \A up \in uploading : ~up.collided

\* C9: when the drawn id exists under the owner's namespace the allocation
\* either comes back with a folder that did not exist or fails with
\* AllocationExhausted without starting the upload.
C9_CollisionRedrawnOrFails ==
  [][\A c \in Clients, id \in FolderIds, batch \in Batches :
       (UploadStart(c, id, batch) /\ existsSync(disk, PathJoin(UserDir(SessionUser(c)), <<id>>)))
         => \/ \E up \in uploading' \ uploading : ~existsSync(disk, up.path)
            \/ uploading' = uploading /\ resp'.body = "allocation exhausted"]_vars

\* C10: an upload whose parsed request holds no file is answered
\* 400 "no files uploaded".
C10_EmptyBatchRejected ==
  [][\A up \in uploading \ uploading' :
       (UploadParsed(up) /\ FlatFiles(up.batch) = <<>>)
         => resp'.status = 400 /\ resp'.body = "no files uploaded"]_vars

\* an upload without files was answered 400
C10_Witness ==
  /\ resp.route = "upload" /\ resp.status = 400
  /\ IsDir(disk, resp.path)

----------------------------------------------------------------------------
(* What an upload leaves in its share folder *)

\* a step in which the callback of form.parse answers the upload request `up`
Answered(up) == up \in uploading /\ \A v \in uploading' : v.serial # up.serial

BatchNames(batch) == {FlatFiles(batch)[k] : k \in 1..Len(FlatFiles(batch))}

\* C11: after an upload is answered "upload successful" its share folder
\* holds exactly the files of the batch, each under its client-supplied name
\* and with its own bytes, and the index document, whatever form fields
\* carried the files.
C11_FolderHoldsExactlyTheBatch ==
  [][\A up \in uploading :
       (Answered(up) /\ resp'.status = 200)
         => /\ {Basename(q) : q \in Children(disk', up.path)}
                 = BatchNames(up.batch) \cup {"index.html"}
            /\ \A n \in BatchNames(up.batch) :
                 LET q == Append(up.path, n) IN
                 q \in DOMAIN disk' /\ disk'[q].type = "file" /\ disk'[q].name = n]_vars

\* a step that answers a list request of an authenticated caller
ListStep == resp' # resp /\ resp'.route = "list" /\ resp'.status = 200

\* a step that answers a download request by streaming a file
DownloadStep == resp' # resp /\ resp'.route = "download" /\ resp'.status = 200

\* the node of a listing shows the whole share folder of the batch
ShowsWholeFolder(node, batch) ==
  {ch.name : ch \in node.children} = BatchNames(batch) \cup {"index.html"}

\* C12: while an upload of an owner is in progress, a listing the owner gets
\* shows its share folder with all the files of the batch and the index
\* document or not at all, and a download of the owner streams no file of
\* the folder that is not yet under its final name.
C12_NoPartialUploadExposed ==
  [][\A up \in uploading :
       up.batch # <<>> =>
       /\ (ListStep /\ resp'.user = up.user)
            => \A node \in resp'.tree :
                 (node.type = "directory" /\ node.name = up.id)
                   => ShowsWholeFolder(node, up.batch)
       /\ (DownloadStep /\ resp'.user = up.user)
            => \A f \in resp'.served :
                 (IsPrefix(up.path, f[1]) /\ f[2].type = "file")
                   => Basename(f[1]) = f[2].name]_vars

\* C14: after an upload is answered "upload successful" the index document
\* of its share folder holds, for every file of the batch, the link
\* (owner, folder id, filename) of that file.
C14_IndexLinksEveryFile ==
  [][\A up \in uploading :
       (Answered(up) /\ resp'.status = 200)
         => LET index == Append(up.path, "index.html") IN
            /\ index \in DOMAIN disk' /\ disk'[index].type = "index"
            /\ {disk'[index].links[k] : k \in DOMAIN disk'[index].links}
                 = {<<up.user, <<up.id>>, <<n>>>> : n \in BatchNames(up.batch)}]_vars

----------------------------------------------------------------------------
(* Listings *)

\* C13: a list request of an authenticated identity is answered with a
\* listing, never with a failure; it creates the namespace when it is missing
\* and changes nothing else on the disk, and the listing of a namespace
\* directory without entries is empty.
C13_ListNeverFails ==
  [][(resp' # resp /\ resp'.route = "list" /\ resp'.as # {})
       => /\ resp'.status = 200
          /\ disk' = EnsureUserDir(disk, resp'.path)
          /\ (IsDir(disk', resp'.path) /\ Children(disk', resp'.path) = {})
               => resp'.tree = {}]_vars

\* the entries a listing shows below `base`: path, kind and storage path
RECURSIVE TreeEntries(_, _)
TreeEntries(tree, base) ==
  UNION {{<<Append(base, n.name), n.type, n.path>>}
           \cup (IF n.type = "directory"
                 THEN TreeEntries(n.children, Append(base, n.name))
                 ELSE {})
         : n \in tree}

\* the entries the disk holds below `dir`
DiskEntries(d, dir) ==
  {IF IsDir(d, q) THEN <<q, "directory", <<>>>> ELSE <<q, "file", q>>
   : q \in {q \in DOMAIN d : IsPrefix(dir, q) /\ q # dir}}

\* C17: the tree a list request returns shows every file and directory the
\* disk holds below the caller's namespace at that moment, at its place and
\* a file with its storage path, and shows nothing else.
C17_ListingEqualsDisk ==
  [][ListStep => TreeEntries(resp'.tree, resp'.path) = DiskEntries(disk', resp'.path)]_vars

----------------------------------------------------------------------------
(* Downloads of the owner *)

\* C15: a download request of the owner is answered "file not found" exactly
\* when nothing exists at uploads/<owner>/<folder>/<filename>; otherwise it
\* streams the file at that path, which lies inside the owner's namespace.
C15_OwnerDownloadResolves ==
  [][(resp' # resp /\ resp'.route = "download" /\ resp'.as = {resp'.user})
       => IF ~existsSync(disk, resp'.path)
          THEN resp'.status = 404 /\ resp'.body = "file not found" /\ resp'.served = {}
          ELSE /\ resp'.status = 200
               /\ resp'.served = {<<resp'.path, disk[resp'.path]>>}
               /\ IsFile(disk, resp'.path)
               /\ IsPrefix(UserDir(resp'.user), resp'.path)
               /\ resp'.path # UserDir(resp'.user)]_vars

----------------------------------------------------------------------------
(* Requests without an identity, and the identity of a session *)

\* C16: a list, upload or download request that carries no session identity
\* is answered with the redirect of requireLogin: it gets no listing and no
\* file, and the identity table, users.json, the disk, the sessions and the
\* uploads in progress stay as they are.
C16_UnauthenticatedRejected ==
  [][(resp' # resp /\ resp'.route \in {"list", "upload", "download"} /\ resp'.as = {})
       => /\ resp'.status = 302 /\ resp'.body = "/"
          /\ resp'.served = {} /\ resp'.tree = {}
          /\ UNCHANGED <<users, usersFile, disk, sessions, uploading>>]_vars

\* an upload request without a session was redirected while a registered
\* identity has a namespace on the disk
C16_Witness ==
  /\ resp.route = "upload" /\ resp.as = {} /\ resp.status = 302
  /\ \E u \in DOMAIN users : IsDir(disk, UserDir(u))

\* C20: the identity of a session is absent or a key of the identity table;
\* a session's identity changes only to the username of an accepted signup
\* or login of its client, or to absent by a logout of its client; a signup
\* or login that is not accepted leaves every session alone.
C20_SessionIdentityRegistered ==
  [][/\ \A c \in Clients : sessions'[c] \subseteq DOMAIN users'
     /\ \A c \in Clients :
          sessions'[c] # sessions[c]
            => \/ /\ resp'.route \in {"signup", "login"} /\ resp'.status = 302
                  /\ resp'.client = c /\ sessions'[c] = {resp'.user}
               \/ /\ resp'.route = "logout" /\ resp'.client = c /\ sessions'[c] = {}
     /\ ((SignupStep \/ LoginStep) /\ resp'.status # 302) => sessions' = sessions
     /\ (resp' # resp /\ resp'.route = "logout") => sessions'[resp'.client] = {}]_vars

\* a login with a wrong password left the session of a logged-in client alone
C20_Witness ==
  /\ resp.route = "login" /\ resp.body = "incorrect password"
  /\ resp.as # {} /\ sessions[resp.client] = resp.as
  /\ resp.as \subseteq DOMAIN users

----------------------------------------------------------------------------
(* The life of a share folder *)

\* the share folder at p holds the index document of an answered upload
Completed(d, p) ==
  /\ IsDir(d, p)
  /\ Append(p, "index.html") \in DOMAIN d
  /\ d[Append(p, "index.html")].type = "index"

\* C18: once an upload into a share folder was answered "upload successful"
\* no step adds, removes or replaces an entry of the folder.
C18_ShareFolderImmutable ==
  [][\A p \in DOMAIN disk :
       Completed(disk, p)
         => \A q \in DOMAIN disk \cup DOMAIN disk' :
              (IsPrefix(p, q) /\ q # p)
                => q \in DOMAIN disk /\ q \in DOMAIN disk' /\ disk'[q] = disk[q]]_vars

\* C19: when no upload is in progress every share folder of a namespace
\* holds an uploaded file and exactly one index document (so an upload that
\* failed has left no folder).
C19_NoIncompleteFolder ==
  uploading = {}
    => \A u \in DOMAIN users : \A p \in Children(disk, UserDir(u)) :
         IsDir(disk, p)
           => /\ \E q \in Children(disk, p) : disk[q].type = "file"
              /\ Cardinality({q \in Children(disk, p) : disk[q].type = "index"}) = 1

====
